---- MODULE Spec2Model ----
(***************************************************************************)
(* Session clients of 5.5-advanced-sessions:                               *)
(*   - the asyncio demos of 4-programmatic-examples/async_sessions.py      *)
(*     (AsyncSessionClient / SyncSessionClient fanned out by               *)
(*     asyncio.gather),                                                    *)
(*   - SessionManager of 2-rest-api-manager/session_manager.py,            *)
(*   - the session-creating entry points of the CLI and of the web form.   *)
(***************************************************************************)
EXTENDS Integers, Sequences, FiniteSets, TLC

\* ------------------------------------------------------------------ bounds
\* number of users a demo creates a session for (10, 3, 20, 3 in the demos)
NumUsers == 2
\* messages sent to each session by demo_3 / demo_4 (3 in the demos)
MessagesPerSession == 2
\* the concurrency ceiling C the specification speaks of; no code reads it
Ceiling == 1

Users == 1..NumUsers
Msgs == 1..MessagesPerSession

\* ------------------------------------------------------------ Python values
\* Python's None
None == "<None>"
\* a key that a JSON object does not have
Absent == "<absent>"
\* a slot of the gathered result list whose awaitable has not finished
Unset == "<unset>"

\* Python truthiness of an optional string (None and "" are falsy)
Truthy(v) == v \notin {None, ""}

\* (mutation of FilterNotNone) the list is handed on as gathered
FilterNothing(xs) == xs

\* [x for x in xs if x is not None]
FilterNotNone(xs) == SelectSeq(xs, LAMBDA x : x # None)

\* ------------------------------------------------------------- remote side
\* the opaque id the remote service issues for the session of user u
SidOf(u) == "s" \o ToString(u)
SessionIds == {SidOf(u) : u \in Users}
\* the text the remote service answers to message m of session sid
ReplyText(sid, m) == sid \o ":" \o ToString(m)

\* a JSON object without any of the keys the clients read
NoBody == [json |-> TRUE, session_id |-> Absent, response |-> Absent,
           text |-> Absent, has_sessions |-> FALSE, sessions |-> <<>>,
           raw |-> "{}"]
\* a body that is not JSON: response.json() raises
BadJson == [NoBody EXCEPT !.json = FALSE, !.raw = "<html>"]
\* the body of an error response; raw is response.text
ErrorBody == [NoBody EXCEPT !.raw = "detail"]

\* what one HTTP exchange can end with: an exception of the HTTP library
\* (exc), or a response with a status and a JSON body
Response(status, body) == [exc |-> "none", status |-> status, body |-> body]
Failure(exc) == [exc |-> exc, status |-> 0, body |-> NoBody]
NoReply == Failure("<pending>")

\* ------------------------------------------------- demo clients (pure part)
\* response.raise_for_status(): raises HTTPError for 4xx and 5xx
RaisesForStatus(status) == status >= 400 /\ status < 600

\* (mutation of DataGet) the text field is looked up first
DataGetTextFirst(body) ==
    IF body.text # Absent THEN body.text
    ELSE IF body.response # Absent THEN body.response
    ELSE ""

\* (mutation of DataGet) no default for a reply without either field
DataGetNoDefault(body) ==
    IF body.response # Absent THEN body.response
    ELSE IF body.text # Absent THEN body.text
    ELSE None

\* data.get("response", data.get("text", ""))
DataGet(body) ==
    IF body.response # Absent THEN body.response
    ELSE IF body.text # Absent THEN body.text
    ELSE ""

\* AsyncSessionClient.create_session / SyncSessionClient.create_session:
\* the value returned for the outcome of the POST (any exception -> None)
CreateReturn(outcome) ==
    IF outcome.exc # "none" THEN None
    ELSE IF RaisesForStatus(outcome.status) THEN None
    ELSE IF ~outcome.body.json THEN None
    ELSE IF outcome.body.session_id = Absent THEN None
    ELSE outcome.body.session_id

\* (mutation of SendReturn) the status of the response is not checked
SendReturnUnchecked(outcome) ==
    IF outcome.exc # "none" THEN None
    ELSE IF ~outcome.body.json THEN None
    ELSE DataGet(outcome.body)

\* AsyncSessionClient.send_message / SyncSessionClient.send_message
SendReturn(outcome) ==
    IF outcome.exc # "none" THEN None
    ELSE IF RaisesForStatus(outcome.status) THEN None
    ELSE IF ~outcome.body.json THEN None
    ELSE DataGet(outcome.body)

ClientReturn(task, outcome) ==
    IF task.kind = "create" THEN CreateReturn(outcome) ELSE SendReturn(outcome)

\* ------------------------------------------------------------ HTTP library
\* requests.exceptions: ConnectTimeout derives from ConnectionError and from
\* Timeout, ReadTimeout from Timeout
IsConnectionError(exc) == exc \in {"ConnectionError", "ConnectTimeout"}
IsTimeout(exc) == exc \in {"ConnectTimeout", "ReadTimeout"}

\* ---------------------------------------------------------- SessionManager
\* what a call gives its caller: the value returned, or the exception raised
\* with the fixed part of its message (msg) and what the message
\* interpolates of the response: its status code (0: none) and its text
Return(v) == [raised |-> "none", msg |-> "", value |-> v, status |-> 0, text |-> ""]
Raise(type, msg) ==
    [raised |-> type, msg |-> msg, value |-> None, status |-> 0, text |-> ""]
\* f"...: {e.response.status_code} - {e.response.text}"
RaiseHTTP(type, msg, outcome) ==
    [Raise(type, msg) EXCEPT !.status = outcome.status, !.text = outcome.body.raw]
\* f"Unexpected error: {str(e)}"; str() of an HTTPError names the status
\* code, the reason phrase and the URL, not the body
RaiseUnexpected(outcome) ==
    [Raise("ValueError", "Unexpected error") EXCEPT
        !.status = IF outcome.exc = "none" /\ RaisesForStatus(outcome.status)
                   THEN outcome.status ELSE 0]

\* (mutation of BuildState) the optional keys are tested with "is not None"
BuildStateNotNone(user_name, user_email, user_preferences, conversation_context) ==
    [k \in {"user_name"}
          \cup (IF user_email # None THEN {"user_email"} ELSE {})
          \cup (IF user_preferences # None THEN {"user_preferences"} ELSE {})
          \cup (IF conversation_context # None
                THEN {"conversation_context"} ELSE {}) |->
        CASE k = "user_name" -> user_name
          [] k = "user_email" -> user_email
          [] k = "user_preferences" -> user_preferences
          [] k = "conversation_context" -> conversation_context]

\* state = {"user_name": user_name}; the optional keys only when truthy
BuildState(user_name, user_email, user_preferences, conversation_context) ==
    [k \in {"user_name"}
          \cup (IF Truthy(user_email) THEN {"user_email"} ELSE {})
          \cup (IF Truthy(user_preferences) THEN {"user_preferences"} ELSE {})
          \cup (IF Truthy(conversation_context)
                THEN {"conversation_context"} ELSE {}) |->
        CASE k = "user_name" -> user_name
          [] k = "user_email" -> user_email
          [] k = "user_preferences" -> user_preferences
          [] k = "conversation_context" -> conversation_context]

\* **kwargs of a call that passes no additional keyword
NoKwargs == <<>>

\* state.update(kwargs): every keyword is copied as given
StateUpdate(state, kwargs) ==
    [k \in DOMAIN state \cup DOMAIN kwargs |->
        IF k \in DOMAIN kwargs THEN kwargs[k] ELSE state[k]]

NoRequest == [method |-> "<none>", path |-> "", payload |-> <<>>]
Request(method, path, payload) ==
    [method |-> method, path |-> path, payload |-> payload]

\* json={"agent_id": AGENT_ID, "state": state}
CreatePayload(agent_id, state) == [agent_id |-> agent_id, state |-> state]

\* (mutation of ChatPayload) the session id is kept in one place shared by
\* all calls, which holds the id of the first session
ChatPayloadShared(session_id, message) ==
    [session_id |-> "s1", message |-> message]

\* json={"session_id": session_id, "message": message}
ChatPayload(session_id, message) == [session_id |-> session_id, message |-> message]

\* (mutation of Issued) a request whose exchange raised is sent once more
IssuedRetrying(request, outcome) ==
    IF request.method = NoRequest.method THEN <<>>
    ELSE IF outcome.exc # "none" THEN <<request, request>>
    ELSE <<request>>

\* the requests one invocation of a client operation puts on the wire when
\* its exchange ends with outcome: requests.post / get / delete (or
\* session.post) is called once, in no loop, and no except clause calls it
\* again
Issued(request, outcome) ==
    IF request.method = NoRequest.method THEN <<>> ELSE <<request>>

\* the try/except of SessionManager.create_session
SessionManager_create_session(outcome) ==
    IF IsConnectionError(outcome.exc) THEN Raise("ConnectionError", "Cannot connect to ADK Web")
    ELSE IF IsTimeout(outcome.exc) THEN Raise("TimeoutError", "Request timed out")
    ELSE IF RaisesForStatus(outcome.status)
    THEN RaiseHTTP("ValueError", "Failed to create session", outcome)
    ELSE IF ~outcome.body.json THEN RaiseUnexpected(outcome)
    ELSE IF outcome.body.session_id = Absent THEN RaiseUnexpected(outcome)
    ELSE Return(outcome.body.session_id)

\* (mutation of SessionManager_send_message) no branch for status 404
SessionManager_send_message_NoNotFound(outcome) ==
    IF IsConnectionError(outcome.exc) THEN Raise("ConnectionError", "Cannot connect to ADK Web")
    ELSE IF IsTimeout(outcome.exc) THEN Raise("TimeoutError", "Request timed out")
    ELSE IF RaisesForStatus(outcome.status)
    THEN RaiseHTTP("ValueError", "Failed to send message", outcome)
    ELSE IF ~outcome.body.json THEN RaiseUnexpected(outcome)
    ELSE Return(DataGet(outcome.body))

\* the try/except of SessionManager.send_message
SessionManager_send_message(outcome) ==
    IF IsConnectionError(outcome.exc) THEN Raise("ConnectionError", "Cannot connect to ADK Web")
    ELSE IF IsTimeout(outcome.exc) THEN Raise("TimeoutError", "Request timed out")
    ELSE IF RaisesForStatus(outcome.status)
    THEN IF outcome.status = 404
         THEN Raise("ValueError", "Session not found")
         ELSE RaiseHTTP("ValueError", "Failed to send message", outcome)
    ELSE IF ~outcome.body.json THEN RaiseUnexpected(outcome)
    ELSE Return(DataGet(outcome.body))

\* (mutation of FilterByAgent) a session that names no agent is kept
FilterByAgentOrUnnamed(ss, agent_id) ==
    SelectSeq(ss, LAMBDA s : s.agent_id \in {agent_id, None})

\* [s for s in sessions if s.get("agent_id") == agent_id]
FilterByAgent(ss, agent_id) == SelectSeq(ss, LAMBDA s : s.agent_id = agent_id)

\* the try/except of SessionManager.list_sessions
SessionManager_list_sessions(agent_id, outcome) ==
    IF IsConnectionError(outcome.exc) THEN Raise("ConnectionError", "Cannot connect to ADK Web")
    ELSE IF IsTimeout(outcome.exc) THEN Raise("TimeoutError", "Request timed out")
    ELSE IF RaisesForStatus(outcome.status) THEN RaiseUnexpected(outcome)
    ELSE IF ~outcome.body.json THEN RaiseUnexpected(outcome)
    ELSE IF ~outcome.body.has_sessions THEN Return(<<>>)
    ELSE IF Truthy(agent_id) THEN Return(FilterByAgent(outcome.body.sessions, agent_id))
    ELSE Return(outcome.body.sessions)

\* (mutation of SessionManager_get_session) no clause for ConnectionError
SessionManager_get_session_NoConnClause(outcome) ==
    IF outcome.exc # "none" THEN RaiseUnexpected(outcome)
    ELSE IF RaisesForStatus(outcome.status)
    THEN IF outcome.status = 404
         THEN Raise("ValueError", "Session not found")
         ELSE RaiseHTTP("ValueError", "Failed to get session", outcome)
    ELSE IF ~outcome.body.json THEN RaiseUnexpected(outcome)
    ELSE Return(outcome.body)

\* the try/except of SessionManager.get_session (no clause for Timeout)
SessionManager_get_session(outcome) ==
    IF IsConnectionError(outcome.exc) THEN Raise("ConnectionError", "Cannot connect to ADK Web")
    ELSE IF IsTimeout(outcome.exc) THEN RaiseUnexpected(outcome)
    ELSE IF RaisesForStatus(outcome.status)
    THEN IF outcome.status = 404
         THEN Raise("ValueError", "Session not found")
         ELSE RaiseHTTP("ValueError", "Failed to get session", outcome)
    ELSE IF ~outcome.body.json THEN RaiseUnexpected(outcome)
    ELSE Return(outcome.body)

\* (mutation of SessionManager_delete_session) no branch for status 404
SessionManager_delete_session_NoNotFound(outcome) ==
    IF IsConnectionError(outcome.exc) THEN Raise("ConnectionError", "Cannot connect to ADK Web")
    ELSE IF IsTimeout(outcome.exc) THEN RaiseUnexpected(outcome)
    ELSE IF RaisesForStatus(outcome.status)
    THEN RaiseHTTP("ValueError", "Failed to delete session", outcome)
    ELSE Return(TRUE)

\* the try/except of SessionManager.delete_session (no clause for Timeout)
SessionManager_delete_session(outcome) ==
    IF IsConnectionError(outcome.exc) THEN Raise("ConnectionError", "Cannot connect to ADK Web")
    ELSE IF IsTimeout(outcome.exc) THEN RaiseUnexpected(outcome)
    ELSE IF RaisesForStatus(outcome.status)
    THEN IF outcome.status = 404
         THEN Raise("ValueError", "Session not found")
         ELSE RaiseHTTP("ValueError", "Failed to delete session", outcome)
    ELSE Return(TRUE)

\* -------------------------------------------- CLI and web form (pure part)
\* what an entry point prints (msg) and returns (v)
Shown(msg, v) == [Return(v) EXCEPT !.msg = msg]
\* f"Failed to create session: {response.status_code}", then response.text
ShownHTTP(msg, outcome) ==
    [Shown(msg, None) EXCEPT !.status = outcome.status, !.text = outcome.body.raw]

\* create_session of 3-cli-interactive/create_session.py: what it prints and
\* returns for the outcome of its POST
Cli_create_session(outcome) ==
    IF IsConnectionError(outcome.exc) THEN Shown("Cannot connect to ADK Web!", None)
    ELSE IF outcome.exc # "none" THEN Shown("Error", None)
    ELSE IF outcome.status = 200
    THEN IF ~outcome.body.json \/ outcome.body.session_id = Absent
         THEN Shown("Error", None)
         ELSE Shown("", outcome.body.session_id)
    ELSE ShownHTTP("Failed to create session", outcome)

\* the submit handler of 1-web-ui-creator/app.py after its POST
Web_create_session(outcome) ==
    IF IsConnectionError(outcome.exc) THEN Shown("Cannot connect to ADK Web", None)
    ELSE IF outcome.exc # "none" THEN Shown("Error", None)
    ELSE IF outcome.status = 200
    THEN IF ~outcome.body.json \/ outcome.body.session_id = Absent
         THEN Shown("Error", None)
         ELSE Shown("Session created successfully!", outcome.body.session_id)
    ELSE ShownHTTP("Failed to create session", outcome)

\* str.strip() on the lines a user can type here
Strip(line) == IF line = " " THEN "" ELSE line

\* get_input(prompt, required) reading from the lines still to be typed:
\* the value it returns and the lines left; blocked when input() waits for
\* a line that never comes
RECURSIVE get_input(_, _)
get_input(lines, required) ==
    IF lines = <<>>
    THEN [blocked |-> TRUE, value |-> None, rest |-> <<>>]
    ELSE IF Strip(Head(lines)) # ""
    THEN [blocked |-> FALSE, value |-> Strip(Head(lines)), rest |-> Tail(lines)]
    ELSE IF ~required
    THEN [blocked |-> FALSE, value |-> None, rest |-> Tail(lines)]
    ELSE get_input(Tail(lines), required)

\* ---------------------------------------------------------- client objects
ADK_BASE_URL == "http://localhost:8000"

\* base_url.rstrip('/') on the URLs used here
RStrip(url) == IF url = "http://localhost:8000/" THEN "http://localhost:8000" ELSE url

\* SessionManager.__init__(base_url, timeout)
SessionManager_init(base_url, timeout) ==
    [base_url |-> RStrip(base_url), timeout |-> timeout]

\* AsyncSessionClient.__init__(base_url): self.session = None;
\* SyncSessionClient.__init__ and SessionClient.__init__ of multi_user_demo.py
\* set base_url only (session: Absent)
SessionClient_init(async, base_url) ==
    [base_url |-> RStrip(base_url), session |-> IF async THEN None ELSE Absent]

\* AsyncSessionClient.__aenter__: self.session = aiohttp.ClientSession()
SessionClient_aenter(self) ==
    IF self.session = Absent THEN self ELSE [self EXCEPT !.session = "open"]

\* AsyncSessionClient.__aexit__: "if self.session: await self.session.close()"
SessionClient_aexit(self) ==
    IF self.session = "open" THEN [self EXCEPT !.session = "closed"] ELSE self

\* (mutation of SelfAfter) the method normalises base_url again and keeps
\* the outcome in self
SelfAfterRewriting(self) == [self EXCEPT !.base_url = "http://localhost:8000/"]

\* the fields of a client object when one of its operations returns: no
\* operation of SessionManager or of the session clients assigns to self
SelfAfter(self) == self

\* (mutation of SessionPost) the request is made whether or not an aiohttp
\* session is open
SessionPostRegardless(self, request, outcome) ==
    [request |-> request, outcome |-> outcome]

\* "async with self.session.post(...)": without an open aiohttp session the
\* statement raises inside the try block (AttributeError on None,
\* RuntimeError "Session is closed") and no request is made; the clients on
\* requests have no session and always make the request
SessionPost(self, request, outcome) ==
    IF self.session = None
    THEN [request |-> NoRequest, outcome |-> Failure("AttributeError")]
    ELSE IF self.session = "closed"
    THEN [request |-> NoRequest, outcome |-> Failure("RuntimeError")]
    ELSE [request |-> request, outcome |-> outcome]

\* ------------------------------------------------------------------- state
VARIABLES
    useAsync,     \* USE_ASYNC: aiohttp imported, SessionClient = AsyncSessionClient
    demo,         \* which demo of async_sessions.py runs (1..4), 0: none
    pcMain,       \* position of the demo coroutine
    tasks,        \* the awaitables handed to asyncio.gather, in order
    st,           \* st[i]: "pending" | "called" | "wire" | "done"
    reply,        \* reply[i]: outcome of the HTTP exchange of task i
    results,      \* the list asyncio.gather builds
    recorded,     \* recorded[sid]: the payloads of the chat requests the
                  \* remote received for sid, in order of arrival
    session_ids,  \* session_ids of the demo
    sessions,     \* demo_4: name -> session id
    returned,     \* demo_1: the returned list; demo_2: the responses shown
    completions,  \* completions[i]: how often awaitable i has finished
    call,         \* the client operation performed last (outside the demos
                  \* of async_sessions.py): its arguments, the request it
                  \* issued, the outcome of the exchange and its result
    client,       \* the fields of the client objects: manager (a
                  \* SessionManager) and session_client (a SessionClient)
    session_history  \* create_session.py: the module's list of created sessions

batchVars == <<useAsync, demo, pcMain, tasks, st, reply, results, recorded,
               session_ids, sessions, returned, completions>>
clientVars == <<call, client, session_history>>
vars == <<batchVars, clientVars>>

\* no client operation performed yet
NoArgs == [user_email |-> Absent, user_preferences |-> Absent,
           conversation_context |-> Absent]

NoCall == [entry |-> "<none>", user_name |-> None, sid |-> None, filter |-> None,
           supplied |-> NoArgs,
           request |-> NoRequest, issued |-> <<>>, outcome |-> NoReply,
           result |-> Return(None)]

\* a performed client operation: entry point, arguments (user_name, sid,
\* filter, supplied: the optional values of create_session as passed),
\* the request built, the requests put on the wire, the outcome of the
\* exchange, what the caller got
Called(entry, user_name, sid, request, outcome, result) ==
    [entry |-> entry, user_name |-> user_name, sid |-> sid, filter |-> None,
     supplied |-> NoArgs,
     request |-> request, issued |-> Issued(request, outcome),
     outcome |-> outcome, result |-> result]

N == Len(tasks)
Ops == 1..N

CreateTask(u) == [kind |-> "create", user |-> u, sid |-> None, msg |-> 0]
SendTask(u, sid, m) == [kind |-> "send", user |-> u, sid |-> sid, msg |-> m]

\* the calls whose coroutine has entered its HTTP request and not left it
InFlight == {i \in Ops : st[i] \in {"called", "wire"}}

\* the calls that hold a slot of an admission semaphore: neither the client
\* methods nor the demos acquire one before "session.post" / "requests.post"
SlotHolders == {}

\* --------------------------------------------------------- asyncio.gather
\* (mutation of SyncBlocks) the fallback client yields to the event loop
\* during its request, as the aiohttp client does
SyncYields(i) == TRUE

\* (mutation of SyncBlocks) the fallback client blocks the event loop only
\* until its request has been written
SyncBlocksUntilSent(i) == \A j \in Ops \ {i} : st[j] \in {"pending", "wire", "done"}

\* SyncSessionClient: requests.post blocks the only thread of the event
\* loop, so the coroutine runs from its first to its last line while every
\* other awaitable stands still
SyncBlocks(i) == \A j \in Ops \ {i} : st[j] \in {"pending", "done"}

\* (mutation of CanStart) every client holds the event loop during its request
CanStartOneAtATime(i) ==
    /\ st[i] = "pending"
    /\ \A j \in 1..(i - 1) : st[j] # "pending"
    /\ SyncBlocks(i)

\* (mutation of CanStart) the event loop picks any awaitable that is ready
CanStartAnyOrder(i) ==
    /\ st[i] = "pending"
    /\ (~useAsync => SyncBlocks(i))

\* the event loop runs the awaitables of gather(*tasks) in the order given;
\* AsyncSessionClient suspends in "async with self.session.post(...)" and
\* lets the next awaitable run
CanStart(i) ==
    /\ st[i] = "pending"
    /\ \A j \in 1..(i - 1) : st[j] # "pending"
    /\ (~useAsync => SyncBlocks(i))

\* (mutation of GatherStore) results collected in order of completion
GatherStoreByCompletion(res, i, v) ==
    [res EXCEPT ![CHOOSE k \in DOMAIN res :
                    res[k] = Unset /\ \A j \in 1..(k - 1) : res[j] # Unset] = v]

\* (mutation of GatherStore) a failed awaitable voids the whole batch
GatherStoreAllOrNothing(res, i, v) ==
    IF v = None THEN [k \in DOMAIN res |-> None] ELSE [res EXCEPT ![i] = v]

\* gather stores the value an awaitable returned at the awaitable's index
GatherStore(res, i, v) == [res EXCEPT ![i] = v]

\* what the remote service answers to the request of a task that reached it
OkBody(task) ==
    IF task.kind = "create"
    THEN [NoBody EXCEPT !.session_id = SidOf(task.user)]
    ELSE [NoBody EXCEPT !.response = ReplyText(task.sid, task.msg)]
RemoteReplies(task) == {Response(200, OkBody(task)), Response(500, NoBody)}

Gathering == pcMain \in {"gather_create", "gather_send"}

\* multi_user_demo.py: the program is in one of its "for" loops over calls
Looping == pcMain \in {"loop_create", "loop_send"}

\* calls of the client are being made
Calling == Gathering \/ Looping

\* coroutine i runs up to its first suspension: the POST is under way
Start(i) ==
    /\ Gathering
    /\ CanStart(i)
    /\ st' = [st EXCEPT ![i] = "called"]
    /\ UNCHANGED <<clientVars, useAsync, demo, pcMain, tasks, reply, results, recorded,
                   session_ids, sessions, returned, completions>>

\* (mutation of Finish) the failure of one awaitable cancels the awaitables
\* that have not started yet
FinishFailFast(i, outcome) ==
    /\ st' = [j \in DOMAIN st |->
                IF j = i THEN "done"
                ELSE IF st[j] = "pending"
                        /\ ClientReturn(tasks[i], outcome) = None
                     THEN "cancelled" ELSE st[j]]
    /\ reply' = [reply EXCEPT ![i] = outcome]
    /\ results' = [results EXCEPT ![i] = ClientReturn(tasks[i], outcome)]
    /\ completions' = [completions EXCEPT ![i] = @ + 1]

\* (mutation of Finish) a call that failed is never taken off the calls
\* under way
FinishLeaking(i, outcome) ==
    /\ st' = [st EXCEPT ![i] = IF ClientReturn(tasks[i], outcome) = None
                                THEN "leaked" ELSE "done"]
    /\ reply' = [reply EXCEPT ![i] = outcome]
    /\ results' = [results EXCEPT ![i] = ClientReturn(tasks[i], outcome)]
    /\ completions' = [completions EXCEPT ![i] = @ + 1]

\* the awaitable finishes: the client method returns and gather stores it
Finish(i, outcome) ==
    /\ st' = [st EXCEPT ![i] = "done"]
    /\ reply' = [reply EXCEPT ![i] = outcome]
    /\ results' = GatherStore(results, i, ClientReturn(tasks[i], outcome))
    /\ completions' = [completions EXCEPT ![i] = @ + 1]

\* the connection cannot be established: nothing reaches the remote
ConnFail(i) ==
    /\ Calling
    /\ st[i] = "called"
    /\ Finish(i, Failure("ConnectionError"))
    /\ UNCHANGED <<clientVars, useAsync, demo, pcMain, tasks, recorded,
                   session_ids, sessions, returned>>

\* the request of call i is written to its connection and reaches the
\* remote, which files a chat request under the session id it carries
Transmit(i) ==
    /\ Calling
    /\ st[i] = "called"
    /\ st' = [st EXCEPT ![i] = "wire"]
    /\ recorded' = IF tasks[i].kind = "send"
                   THEN LET payload == ChatPayload(tasks[i].sid, tasks[i].msg)
                        IN  [recorded EXCEPT ![payload.session_id] = Append(@, payload)]
                   ELSE recorded
    /\ UNCHANGED <<clientVars, useAsync, demo, pcMain, tasks, reply, results,
                   session_ids, sessions, returned, completions>>

\* the response of call i arrives
Complete(i) ==
    /\ Calling
    /\ st[i] = "wire"
    /\ \E outcome \in RemoteReplies(tasks[i]) : Finish(i, outcome)
    /\ UNCHANGED <<clientVars, useAsync, demo, pcMain, tasks, recorded,
                   session_ids, sessions, returned>>

AllDone == \A i \in Ops : st[i] = "done"

\* a fresh batch handed to gather
Submit(ts) ==
    /\ tasks' = ts
    /\ st' = [i \in 1..Len(ts) |-> "pending"]
    /\ reply' = [i \in 1..Len(ts) |-> NoReply]
    /\ results' = [i \in 1..Len(ts) |-> Unset]
    /\ completions' = [i \in 1..Len(ts) |-> 0]

\* message_tasks of demo_2: one message for every created session
BroadcastTasks(sids) == [k \in 1..Len(sids) |-> SendTask(0, sids[k], 1)]

\* message_tasks of demo_3: for session_id in session_ids: for i in range(..)
LoadTasks(sids) ==
    [k \in 1..(Len(sids) * MessagesPerSession) |->
        SendTask(0, sids[((k - 1) \div MessagesPerSession) + 1],
                 ((k - 1) % MessagesPerSession) + 1)]

\* all_tasks of demo_4: for name, messages in conversations.items()
ConversationTasks(sess) ==
    [k \in 1..(NumUsers * MessagesPerSession) |->
        SendTask(((k - 1) \div MessagesPerSession) + 1,
                 sess[((k - 1) \div MessagesPerSession) + 1],
                 ((k - 1) % MessagesPerSession) + 1)]

\* demo_4: sessions[name] = session_id for the truthy session ids
SessionsDict(ids) == [u \in {v \in Users : Truthy(ids[v])} |-> ids[u]]

\* "session_ids = await asyncio.gather(*create_tasks)" returns and the demo
\* runs on to its next await (or to its end)
GatherCreateReturn ==
    /\ pcMain = "gather_create"
    /\ AllDone
    /\ UNCHANGED <<clientVars, useAsync, demo, recorded>>
    /\ CASE demo = 1 ->
            /\ session_ids' = results
            /\ returned' = FilterNotNone(results)
            /\ pcMain' = "done"
            /\ UNCHANGED <<tasks, st, reply, results, sessions, completions>>
         [] demo \in {2, 3} ->
            /\ session_ids' = FilterNotNone(results)
            /\ UNCHANGED <<sessions, returned>>
            /\ IF FilterNotNone(results) = <<>>
               THEN /\ pcMain' = "no_sessions"
                    /\ UNCHANGED <<tasks, st, reply, results, completions>>
               ELSE /\ pcMain' = "gather_send"
                    /\ Submit(IF demo = 2
                              THEN BroadcastTasks(FilterNotNone(results))
                              ELSE LoadTasks(FilterNotNone(results)))
         [] demo = 4 ->
            /\ session_ids' = results
            /\ sessions' = SessionsDict(results)
            /\ UNCHANGED returned
            /\ IF DOMAIN SessionsDict(results) = {}
               THEN /\ pcMain' = "no_sessions"
                    /\ UNCHANGED <<tasks, st, reply, results, completions>>
               ELSE IF DOMAIN SessionsDict(results) # Users
               THEN \* sessions[name] raises KeyError
                    /\ pcMain' = "key_error"
                    /\ UNCHANGED <<tasks, st, reply, results, completions>>
               ELSE /\ pcMain' = "gather_send"
                    /\ Submit(ConversationTasks(SessionsDict(results)))

\* zip(users, responses): pairs up to the end of the shorter list
Zip(users, responses) ==
    [k \in 1..(IF Len(users) <= Len(responses) THEN Len(users) ELSE Len(responses))
        |-> [user |-> users[k], response |-> responses[k]]]

\* demo_2: "for i, (user, response) in enumerate(zip(users, responses), 1):
\* if response: print(user['name'], preview)"
ShownResponses(users, responses) ==
    SelectSeq(Zip(users, responses), LAMBDA p : Truthy(p.response))

\* "responses = await asyncio.gather(...)" returns; demo_2 then prints the
\* responses under the names of the users
GatherSendReturn ==
    /\ pcMain = "gather_send"
    /\ AllDone
    /\ pcMain' = "done"
    /\ returned' = IF demo = 2
                   THEN ShownResponses([u \in Users |-> u], results)
                   ELSE returned
    /\ UNCHANGED <<clientVars, useAsync, demo, tasks, st, reply, results, recorded,
                   session_ids, sessions, completions>>

Demos == 1..4

Init ==
    /\ useAsync \in BOOLEAN
    /\ demo \in Demos
    /\ pcMain = "gather_create"
    /\ tasks = [u \in Users |-> CreateTask(u)]
    /\ st = [u \in Users |-> "pending"]
    /\ reply = [u \in Users |-> NoReply]
    /\ results = [u \in Users |-> Unset]
    /\ completions = [u \in Users |-> 0]
    /\ recorded = [s \in SessionIds |-> <<>>]
    /\ session_ids = <<>>
    /\ sessions = <<>>
    /\ returned = <<>>
    /\ call = NoCall
    /\ session_history = <<>>
    /\ client = [manager |-> SessionManager_init(ADK_BASE_URL, 30),
                 session_client |->
                    SessionClient_aenter(SessionClient_init(useAsync, ADK_BASE_URL))]

Next ==
    \/ \E i \in Ops : Start(i)
    \/ \E i \in Ops : ConnFail(i)
    \/ \E i \in Ops : Transmit(i)
    \/ \E i \in Ops : Complete(i)
    \/ GatherCreateReturn
    \/ GatherSendReturn

Spec == Init /\ [][Next]_vars

\* the demos that gather one operation per user: demo_1_concurrent_creation
\* and demo_2_parallel_messaging
InitPerUser == Init /\ demo \in {1, 2}
SpecPerUser == InitPerUser /\ [][Next]_vars

\* demo_3_load_test alone, with either client
InitLoad == Init /\ demo = 3

\* the event loop keeps running what is ready and every network call ends
FairSpec == InitLoad /\ [][Next]_vars /\ WF_vars(Next)

\* ------------------------------------------------- claims on the batches
\* the exchange of call i failed (exception or error status)
Failed(i) == reply[i].exc # "none" \/ RaisesForStatus(reply[i].status)

\* the value the remote service produced for the request of a task
ExpectedValue(task) ==
    IF task.kind = "create" THEN SidOf(task.user)
    ELSE ReplyText(task.sid, task.msg)

\* C1 (as stated): with a ceiling C < N, never more than C calls of a batch
\* of N operations are in flight at once.
C1_AtMostCeilingInFlight ==
    (Gathering /\ Ceiling < N) => Cardinality(InFlight) <= Ceiling

\* C1 (amended): no ceiling is enforced.  With AsyncSessionClient up to all N
\* calls of a gathered batch are in flight at once; with the fallback
\* SyncSessionClient at most one is.
C1_InFlightBound ==
    Cardinality(InFlight) <= (IF useAsync THEN N ELSE 1)

C1_Witness ==
    /\ useAsync /\ demo = 3 /\ pcMain = "gather_send"
    /\ N = NumUsers * MessagesPerSession
    /\ Cardinality(InFlight) = N

\* C2 (as stated): of two send_message operations on one session id, the
\* earlier has completed before the network call of the later begins; at
\* most one call per session id is in flight.
C2_PerSessionSerial ==
    \A i, j \in Ops :
        (/\ i < j
         /\ tasks[i].kind = "send" /\ tasks[j].kind = "send"
         /\ tasks[i].sid = tasks[j].sid
         /\ st[j] # "pending")
        => st[i] = "done"

\* the messages of a sequence of chat requests
Messages(q) == [k \in 1..Len(q) |-> q[k].message]

\* the sequence holds its numbers in strictly increasing order
Increasing(q) == \A a, b \in 1..Len(q) : a < b => q[a] < q[b]

\* C3 (as stated): the calls of the K messages of one session reach the
\* transport in submission order: message 1, then message 2, ...
C3_RecordedInSubmissionOrder ==
    \A sid \in SessionIds : Increasing(Messages(recorded[sid]))

\* C4: the gathered result has one slot per submitted operation and slot i
\* holds the outcome of operation i, whatever the order of completion.
C4_ResultsAlignedWithInput ==
    /\ Len(results) = Len(tasks)
    /\ \A i \in Ops :
         /\ st[i] # "done" => results[i] = Unset
         /\ st[i] = "done" =>
              /\ results[i] = ClientReturn(tasks[i], reply[i])
              /\ Failed(i) => results[i] = None
              /\ ~Failed(i) => results[i] = ExpectedValue(tasks[i])

C4_Witness ==
    /\ useAsync /\ pcMain = "gather_send" /\ N >= 2
    /\ st[1] # "done" /\ st[N] = "done" /\ results[N] = ExpectedValue(tasks[N])

\* C5: the failure of one operation of a batch neither cancels a sibling nor
\* changes what is reported for a sibling: the step in which an operation
\* fails leaves every other operation where it was, and when the batch has
\* completed every operation whose exchange succeeded is reported with the
\* value the remote produced for it.
C5_FailureLeavesSiblings ==
    /\ [][\A i, j \in Ops :
            (/\ pcMain' = pcMain /\ i # j
             /\ st[j] # "done" /\ st'[j] = "done" /\ results'[j] = None)
            => (st'[i] = st[i] /\ results'[i] = results[i])]_vars
    /\ [](AllDone =>
            \A i \in Ops : ~Failed(i) => results[i] = ExpectedValue(tasks[i]))

C5_Witness ==
    /\ pcMain = "done" /\ demo = 3
    /\ \E i, j \in Ops : i < j /\ Failed(i) /\ results[i] = None
                           /\ results[j] = ExpectedValue(tasks[j])

\* the error kinds of the specification's taxonomy
ErrorKinds == {"Unreachable", "Timeout", "SessionNotFound", "RequestRejected",
               "MalformedResponse"}

\* C6 (as stated): the batch returns one entry per submitted operation, a
\* failed unit being present at its index as an error entry that says why.
C6_OneEntryPerUnit ==
    (demo = 1 /\ pcMain = "done") =>
        /\ Len(returned) = Len(tasks)
        /\ \A i \in Ops : Failed(i) => returned[i] \in ErrorKinds

\* the ids of the sessions whose creation succeeded, in submission order
RECURSIVE CreatedIds(_)
CreatedIds(k) ==
    IF k = 0 THEN <<>>
    ELSE IF Failed(k) THEN CreatedIds(k - 1)
    ELSE Append(CreatedIds(k - 1), SidOf(tasks[k].user))

\* C6 (amended): the list gather builds has one entry per submitted
\* operation, a failed unit being present at its index as None (the reason
\* is printed, not returned); demo_1 returns the ids of the successful
\* creations only, in submission order: failed units are left out.
C6_FailedUnitsAreNone ==
    /\ AllDone =>
         /\ Len(results) = Len(tasks)
         /\ \A i \in Ops : Failed(i) <=> results[i] = None
    /\ (demo = 1 /\ pcMain = "done") => returned = CreatedIds(N)

C6_Witness ==
    /\ demo = 1 /\ pcMain = "done"
    /\ Failed(1) /\ ~Failed(N)
    /\ Len(returned) < Len(tasks)

\* C7: if every network call terminates, every batch runs to completion
\* with each submitted operation completed exactly once; when all sessions
\* of the load test were created, NumUsers * MessagesPerSession messages
\* complete.
C7_BatchRunsToCompletion ==
    /\ [](\A i \in Ops : completions[i] <= 1)
    /\ Gathering ~> (AllDone /\ \A i \in Ops : completions[i] = 1)
    /\ (demo = 3 /\ pcMain = "gather_send" /\ Len(session_ids) = NumUsers)
         ~> (/\ pcMain = "done"
             /\ N = NumUsers * MessagesPerSession
             /\ \A i \in Ops : completions[i] = 1)

C7_Witness ==
    /\ demo = 3 /\ pcMain = "done"
    /\ N = NumUsers * MessagesPerSession
    /\ \E i \in Ops : Failed(i)
    /\ \A i \in Ops : completions[i] = 1

\* ------------------------------------------- client operations, one by one
\* longest list of sessions the remote returns
MaxListed == 2
\* most lines typed at one prompt of the CLI
MaxTyped == 2
\* the lines a user types
TypedLines == {"", " ", "al"}

AGENT_ID == "dynamic_session_agent"

LibExceptions == {"ConnectionError", "ConnectTimeout", "ReadTimeout"}
ErrorStatuses == {404, 500}

SeqsUpTo(S, n) == UNION {[1..k -> S] : k \in 0..n}

Summaries == {[session_id |-> "s1", agent_id |-> "a"],
              [session_id |-> "s2", agent_id |-> "b"],
              [session_id |-> "s3", agent_id |-> None]}

CreateBodies == {NoBody, BadJson, [NoBody EXCEPT !.session_id = "s1"]}
SendBodies == {NoBody, BadJson, [NoBody EXCEPT !.response = "r"],
               [NoBody EXCEPT !.text = "t"],
               [NoBody EXCEPT !.response = "r", !.text = "t"]}
ListBodies == {NoBody, BadJson}
    \cup {[NoBody EXCEPT !.has_sessions = TRUE, !.sessions = ss] :
             ss \in SeqsUpTo(Summaries, MaxListed)}
GetBodies == {BadJson, [NoBody EXCEPT !.session_id = "s1"]}

Outcomes(bodies) ==
    {Failure(e) : e \in LibExceptions}
    \cup {Response(200, b) : b \in bodies}
    \cup {Response(s, ErrorBody) : s \in ErrorStatuses}

UserNames == {"", "Alice"}
Optionals == {None, "", "x"}
KnownOrNot == {"s1", "invalid-session-id"}
\* agent_id of list_sessions: not given, the empty string, an agent's id
AgentFilters == {None, "", "a"}

Idle == pcMain = "idle"

\* the additional keywords passed to SessionManager.create_session: none,
\* or conversation_context with a text or with the empty string
Kwargs == {NoKwargs} \cup {[k \in {"conversation_context"} |-> v] : v \in {"", "x"}}

\* the value a keyword dictionary holds for a key, Absent when it has none
KwargOf(kwargs, k) == IF k \in DOMAIN kwargs THEN kwargs[k] ELSE Absent

\* SessionManager.create_session(agent_id, user_name, user_email,
\* user_preferences, **kwargs)
CallMgrCreateSession ==
    /\ Idle
    /\ \E user_name \in UserNames, user_email \in Optionals,
          user_preferences \in Optionals, kwargs \in Kwargs,
          outcome \in Outcomes(CreateBodies) :
          call' = [Called("SessionManager.create_session", user_name, None,
                     Request("POST", "/sessions",
                         CreatePayload(AGENT_ID,
                             StateUpdate(BuildState(user_name, user_email,
                                                    user_preferences, None),
                                         kwargs))),
                     outcome, SessionManager_create_session(outcome))
                   EXCEPT !.supplied =
                       [user_email |-> user_email,
                        user_preferences |-> user_preferences,
                        conversation_context |->
                            KwargOf(kwargs, "conversation_context")]]
    /\ client' = [client EXCEPT !.manager = SelfAfter(@)]
    /\ UNCHANGED <<session_history, batchVars>>

\* SessionManager.send_message(session_id, message)
CallMgrSendMessage ==
    /\ Idle
    /\ \E session_id \in KnownOrNot, outcome \in Outcomes(SendBodies) :
          call' = Called("SessionManager.send_message", None, session_id,
                    Request("POST", "/chat", ChatPayload(session_id, "Hello")),
                    outcome, SessionManager_send_message(outcome))
    /\ client' = [client EXCEPT !.manager = SelfAfter(@)]
    /\ UNCHANGED <<session_history, batchVars>>

\* SessionManager.list_sessions(agent_id)
CallMgrListSessions ==
    /\ Idle
    /\ \E agent_id \in AgentFilters, outcome \in Outcomes(ListBodies) :
          call' = [Called("SessionManager.list_sessions", None, None,
                     Request("GET", "/sessions", <<>>),
                     outcome, SessionManager_list_sessions(agent_id, outcome))
                   EXCEPT !.filter = agent_id]
    /\ client' = [client EXCEPT !.manager = SelfAfter(@)]
    /\ UNCHANGED <<session_history, batchVars>>

\* SessionManager.get_session(session_id)
CallMgrGetSession ==
    /\ Idle
    /\ \E session_id \in KnownOrNot, outcome \in Outcomes(GetBodies) :
          call' = Called("SessionManager.get_session", None, session_id,
                    Request("GET", "/sessions/" \o session_id, <<>>),
                    outcome, SessionManager_get_session(outcome))
    /\ client' = [client EXCEPT !.manager = SelfAfter(@)]
    /\ UNCHANGED <<session_history, batchVars>>

\* SessionManager.delete_session(session_id)
CallMgrDeleteSession ==
    /\ Idle
    /\ \E session_id \in KnownOrNot, outcome \in Outcomes({NoBody}) :
          call' = Called("SessionManager.delete_session", None, session_id,
                    Request("DELETE", "/sessions/" \o session_id, <<>>),
                    outcome, SessionManager_delete_session(outcome))
    /\ client' = [client EXCEPT !.manager = SelfAfter(@)]
    /\ UNCHANGED <<session_history, batchVars>>

\* create_session of AsyncSessionClient, SyncSessionClient and of the
\* SessionClient of multi_user_demo.py
CallClientCreateSession ==
    /\ Idle
    /\ \E user_name \in UserNames, user_email \in Optionals,
          user_preferences \in Optionals, outcome \in Outcomes(CreateBodies) :
          LET post == SessionPost(client.session_client,
                        Request("POST", "/sessions",
                            CreatePayload(AGENT_ID,
                                BuildState(user_name, user_email,
                                           user_preferences, None))),
                        outcome)
          IN  call' = [Called("SessionClient.create_session", user_name, None,
                         post.request, post.outcome,
                         Return(CreateReturn(post.outcome)))
                       EXCEPT !.supplied =
                           [NoArgs EXCEPT !.user_email = user_email,
                                          !.user_preferences = user_preferences]]
    /\ client' = [client EXCEPT !.session_client = SelfAfter(@)]
    /\ UNCHANGED <<session_history, batchVars>>

\* send_message of the same three clients
CallClientSendMessage ==
    /\ Idle
    /\ \E session_id \in KnownOrNot, outcome \in Outcomes(SendBodies) :
          LET post == SessionPost(client.session_client,
                        Request("POST", "/chat", ChatPayload(session_id, "Hello")),
                        outcome)
          IN  call' = Called("SessionClient.send_message", None, session_id,
                        post.request, post.outcome,
                        Return(SendReturn(post.outcome)))
    /\ client' = [client EXCEPT !.session_client = SelfAfter(@)]
    /\ UNCHANGED <<session_history, batchVars>>

\* most sessions one run of the CLI creates
MaxRounds == 2

\* (mutation of Cli_session_history) every answer of the remote is stored
Cli_session_history_AnyAnswer(history, user_id, user_name, state, outcome) ==
    IF outcome.exc # "none" THEN history
    ELSE Append(history, [session_id |-> outcome.body.session_id,
                          user_id |-> user_id, user_name |-> user_name,
                          state |-> state])

\* session_history after create_session of create_session.py: the append
\* follows data["session_id"] in the branch for status 200; every other path
\* leaves the list alone
Cli_session_history(history, user_id, user_name, state, outcome) ==
    IF /\ outcome.exc = "none"
       /\ outcome.status = 200
       /\ outcome.body.json
       /\ outcome.body.session_id # Absent
    THEN Append(history, [session_id |-> outcome.body.session_id,
                          user_id |-> user_id, user_name |-> user_name,
                          state |-> state])
    ELSE history

\* one round of the loop of interactive_session_creator in a run of the
\* program that has created the sessions of history so far: the five
\* prompts (each get_input reads the lines typed at its prompt; names are
\* the lines that may be typed at the name prompt), then create_session.
\* Every way the round can go: the call made and session_history after it
CliRound(history, names) ==
    {LET user_id == get_input(id_lines, TRUE)
         user_name == get_input(name_lines, TRUE)
         user_email == get_input(<<email_line>>, FALSE)
         user_preferences == get_input(<<pref_line>>, FALSE)
         conversation_context == get_input(<<context_line>>, FALSE)
         state == BuildState(user_name.value, user_email.value,
                             user_preferences.value,
                             conversation_context.value)
     IN  IF user_id.blocked \/ user_name.blocked
         THEN \* still at a prompt: create_session is not reached
              [call |-> Called("cli.create_session", user_name.value, None,
                               NoRequest, NoReply,
                               Shown("This field is required!", None)),
               session_history |-> history]
         ELSE [call |-> [Called("cli.create_session", user_name.value, None,
                                Request("POST", "/sessions",
                                        CreatePayload(AGENT_ID, state)),
                                outcome, Cli_create_session(outcome))
                         EXCEPT !.supplied =
                             [user_email |-> user_email.value,
                              user_preferences |-> user_preferences.value,
                              conversation_context |->
                                  conversation_context.value]],
               session_history |->
                   Cli_session_history(history, user_id.value,
                                       user_name.value, state, outcome)] :
        id_lines \in {<<"u1">>},
        name_lines \in names,
        email_line \in {"", "x"}, pref_line \in {"", "x"},
        context_line \in {" ", "x"},
        outcome \in Outcomes(CreateBodies)}

\* python create_session.py, one round, "n" at "Create another session?":
\* session_history starts empty, and the list goes with the process when
\* the program ends
CliCreateSession ==
    /\ Idle
    /\ \E round \in CliRound(<<>>, SeqsUpTo(TypedLines, MaxTyped)) :
          call' = round.call
    /\ session_history' = <<>>
    /\ UNCHANGED <<client, batchVars>>

\* the submit handler of the web form
WebSubmit ==
    /\ Idle
    /\ \E user_id \in {"", "u1"}, user_name \in UserNames,
          user_email \in {"", "x"}, user_preferences \in {"", "x"},
          conversation_context \in {"", "x"},
          outcome \in Outcomes(CreateBodies) :
          IF user_id = "" \/ user_name = ""
          THEN call' = Called("web.session_form", user_name, None, NoRequest,
                         NoReply, Shown("User ID and User Name are required!", None))
          ELSE call' = [Called("web.session_form", user_name, None,
                          Request("POST", "/sessions",
                              CreatePayload(AGENT_ID,
                                  BuildState(user_name, user_email, user_preferences,
                                             conversation_context))),
                          outcome, Web_create_session(outcome))
                        EXCEPT !.supplied =
                            [user_email |-> user_email,
                             user_preferences |-> user_preferences,
                             conversation_context |-> conversation_context]]
    /\ UNCHANGED <<client, session_history, batchVars>>

InitClient ==
    /\ useAsync \in BOOLEAN
    /\ demo = 0
    /\ pcMain = "idle"
    /\ tasks = <<>>
    /\ st = <<>>
    /\ reply = <<>>
    /\ results = <<>>
    /\ completions = <<>>
    /\ recorded = [s \in SessionIds |-> <<>>]
    /\ session_ids = <<>>
    /\ sessions = <<>>
    /\ returned = <<>>
    /\ call = NoCall
    /\ session_history = <<>>
    /\ client = [manager |-> SessionManager_init(ADK_BASE_URL, 30),
                 session_client |->
                    SessionClient_aenter(SessionClient_init(useAsync, ADK_BASE_URL))]

NextClient ==
    \/ CallMgrCreateSession
    \/ CallMgrSendMessage
    \/ CallMgrListSessions
    \/ CallMgrGetSession
    \/ CallMgrDeleteSession
    \/ CallClientCreateSession
    \/ CallClientSendMessage
    \/ CliCreateSession
    \/ WebSubmit

SpecClient == InitClient /\ [][NextClient]_vars

\* ---------------------------------------- claims on the client operations
CreateEntries == {"SessionManager.create_session", "SessionClient.create_session",
                  "cli.create_session", "web.session_form"}
SendEntries == {"SessionManager.send_message", "SessionClient.send_message"}
MgrEntries == {"SessionManager.create_session", "SessionManager.send_message",
               "SessionManager.list_sessions", "SessionManager.get_session",
               "SessionManager.delete_session"}

\* C8 (as stated): creating a session with an empty user_name is rejected
\* before any network call, on every entry point that creates sessions.
C8_EmptyUserNameRejected ==
    (call.entry \in CreateEntries /\ call.user_name = "")
        => call.request.method = NoRequest.method

\* what send_message of the entry point gives its caller for an outcome
SendResult(entry, outcome) ==
    IF entry = "SessionManager.send_message"
    THEN SessionManager_send_message(outcome)
    ELSE Return(SendReturn(outcome))

\* C9 (as stated): a 404 on send_message surfaces an error whose kind differs
\* from the kind reported for any other rejected request.
C9_NotFoundHasOwnKind ==
    (call.entry \in SendEntries /\ call.outcome.status = 404) =>
        \A s \in ErrorStatuses \ {404} :
            call.result.raised # SendResult(call.entry, Response(s, NoBody)).raised

\* C9 (amended): SessionManager.send_message raises ValueError with the
\* message "Session not found" on a 404, and the same ValueError type with
\* the message "Failed to send message" on any other rejected request: the
\* 404 is told apart by the message only.  The demo clients return None on
\* a 404 as on any other failure.
C9_NotFoundIsValueError ==
    /\ (call.entry = "SessionManager.send_message" /\ call.outcome.status = 404)
         => call.result = Raise("ValueError", "Session not found")
    /\ (call.entry = "SessionManager.send_message"
         /\ call.outcome.status \in ErrorStatuses \ {404})
         => call.result = RaiseHTTP("ValueError", "Failed to send message",
                                    call.outcome)
    /\ (call.entry = "SessionClient.send_message"
         /\ call.outcome.status \in ErrorStatuses)
         => call.result = Return(None)

C9_Witness ==
    /\ call.entry = "SessionManager.send_message"
    /\ call.sid = "invalid-session-id"
    /\ call.outcome.status = 404
    /\ call.result.raised = "ValueError"

\* C10 (as stated): an operation of SessionManager whose network call
\* exceeds the timeout fails with TimeoutError and with nothing else.
C10_TimeoutRaisesTimeoutError ==
    (call.entry \in MgrEntries /\ IsTimeout(call.outcome.exc))
        => call.result.raised = "TimeoutError"

\* the demo clients and the entry points that print what went wrong
ClientEntries == {"SessionClient.create_session", "SessionClient.send_message"}
FormEntries == {"cli.create_session", "web.session_form"}

\* the exchange of the performed operation failed: the HTTP library raised,
\* the status is an error status, or the body is not JSON
ExchangeFailed(outcome) ==
    \/ outcome.exc # "none"
    \/ RaisesForStatus(outcome.status)
    \/ ~outcome.body.json

\* the operation performed last put a request on the wire and it failed
CallFailed == call.issued # <<>> /\ ExchangeFailed(call.outcome)

\* C11 (as stated): every failure of a client operation is returned to the
\* caller as a value naming its error kind; none is raised and none is
\* collapsed into an empty result.
C11_FailuresAreTypedResults ==
    (call.entry \in MgrEntries \cup ClientEntries /\ CallFailed) =>
        /\ call.result.raised = "none"
        /\ call.result.value \in ErrorKinds

\* C11 (amended): no failure is returned as a typed value.  SessionManager
\* raises every failure to its caller, as ConnectionError, TimeoutError or
\* ValueError; the demo clients catch every exception, print it and return
\* None; the CLI and the web form show a message and yield no session id.
C11_FailuresRaisedOrNone ==
    /\ (call.entry \in MgrEntries /\ CallFailed) =>
          /\ call.result.raised \in {"ConnectionError", "TimeoutError", "ValueError"}
          /\ call.result.value = None
    /\ (call.entry \in ClientEntries /\ CallFailed) => call.result = Return(None)
    /\ (call.entry \in FormEntries /\ CallFailed) =>
          /\ call.result.raised = "none"
          /\ call.result.value = None
          /\ call.result.msg # ""

C11_Witness ==
    /\ call.entry = "SessionClient.send_message"
    /\ call.outcome.status = 500
    /\ call.result = Return(None)

\* the operations addressed to one session id
IdAddressed == {"SessionManager.send_message", "SessionManager.get_session",
                "SessionManager.delete_session"}

\* the remote rejected the request of the operation performed last, and not
\* with a 404 on an operation addressed to a session id
Rejected ==
    /\ call.outcome.exc = "none"
    /\ RaisesForStatus(call.outcome.status)
    /\ ~(call.outcome.status = 404 /\ call.entry \in IdAddressed)

\* C12 (as stated): each of the five operations of SessionManager surfaces
\* a rejected request as an error that carries the status code and the body
\* of the response.
C12_RejectedCarriesStatusAndBody ==
    (call.entry \in MgrEntries /\ Rejected) =>
        /\ call.result.raised = "ValueError"
        /\ call.result.status = call.outcome.status
        /\ call.result.text = call.outcome.body.raw

\* the exchange of the operation performed last ended with status 200 and
\* a JSON body that lacks the field the operation reads
MissingField ==
    /\ call.outcome.exc = "none"
    /\ call.outcome.status = 200
    /\ call.outcome.body.json
    /\ \/ /\ call.entry \in CreateEntries
          /\ call.issued # <<>>
          /\ call.outcome.body.session_id = Absent
       \/ /\ call.entry \in SendEntries
          /\ call.outcome.body.response = Absent
          /\ call.outcome.body.text = Absent

\* C13 (as stated): a 2xx reply that lacks the expected field is reported
\* as a failure and never as a successful result.
C13_MissingFieldIsFailure ==
    MissingField => (call.result.raised # "none" \/ call.result.value = None)

\* C13 (amended): a 2xx reply without session_id makes create_session fail
\* (ValueError "Unexpected error" in SessionManager, None in the demo
\* clients, an error message in the CLI and the web form); a 2xx reply with
\* neither response nor text makes send_message return the empty string as
\* a successful result, in SessionManager and in the demo clients alike.
C13_MissingFieldCreateFailsSendEmpty ==
    /\ (MissingField /\ call.entry = "SessionManager.create_session")
          => call.result = Raise("ValueError", "Unexpected error")
    /\ (MissingField /\ call.entry = "SessionClient.create_session")
          => call.result = Return(None)
    /\ (MissingField /\ call.entry \in FormEntries)
          => call.result = Shown("Error", None)
    /\ (MissingField /\ call.entry \in SendEntries)
          => call.result = Return("")

C13_Witness ==
    /\ MissingField
    /\ call.entry = "SessionManager.send_message"
    /\ call.result = Return("")

Transmitted(i) ==
    \/ st[i] = "wire"
    \/ st[i] = "done" /\ reply[i].exc = "none"

\* the send_message calls of the batch for session sid whose request has
\* reached the remote
SentFor(sid) ==
    {i \in Ops : tasks[i].kind = "send" /\ tasks[i].sid = sid /\ Transmitted(i)}

\* C15: whatever the interleaving of the calls of a batch, every chat
\* request the remote receives for a session is the request of a
\* send_message(id, text) call for that session, and carries that call's
\* session id and message and nothing else; the remote receives for a
\* session as many requests as calls for it have been transmitted.
C15_RequestCarriesOwnIdAndMessage ==
    pcMain \in {"gather_send", "done"} =>
        \A sid \in SessionIds :
            /\ Len(recorded[sid]) = Cardinality(SentFor(sid))
            /\ \A k \in 1..Len(recorded[sid]) :
                  /\ DOMAIN recorded[sid][k] = {"session_id", "message"}
                  /\ recorded[sid][k].session_id = sid
                  /\ \E i \in SentFor(sid) :
                        recorded[sid][k].message = tasks[i].msg

\* two sessions with their messages on the wire at the same time
C15_Witness ==
    /\ demo = 2 /\ pcMain = "gather_send" /\ useAsync
    /\ \E i, j \in Ops :
          /\ i # j /\ tasks[i].sid # tasks[j].sid
          /\ st[i] = "wire" /\ st[j] = "wire"
          /\ recorded[tasks[i].sid] # <<>> /\ recorded[tasks[j].sid] # <<>>

\* C16 (as stated): every call holds a concurrency slot from before its
\* network call until its result is recorded, so as many slots are held as
\* calls are in flight.
C16_SlotsHeldEqualInFlight ==
    Cardinality(SlotHolders) = Cardinality(InFlight)

\* C16 (amended): no concurrency slot exists and none is acquired.  A call
\* is in flight from the start of its coroutine until the coroutine
\* returns, and has left the calls in flight, on success and on failure
\* alike, when its result is recorded; no call is in flight once gather has
\* returned; a call that failed keeps no later call from running: a
\* pending call can start unless the blocking request of the fallback
\* client is under way.
C16_NoSlotsCallsLeaveOnEveryPath ==
    /\ SlotHolders = {}
    /\ \A i \in Ops : results[i] # Unset <=> st[i] = "done"
    /\ ~Gathering => InFlight = {}
    /\ (Gathering /\ \E i \in Ops : st[i] = "pending") =>
          \/ \E i \in Ops : CanStart(i)
          \/ ~useAsync /\ InFlight # {}

\* with the fallback client a call is in flight after an earlier call of
\* the batch has failed
C16_Witness ==
    /\ ~useAsync /\ demo = 3 /\ pcMain = "gather_send"
    /\ \E i, j \in Ops : /\ i < j
                          /\ st[i] = "done" /\ Failed(i) /\ results[i] = None
                          /\ j \in InFlight

\* the exchange ended with status 200 and a JSON body
Replied(outcome) ==
    outcome.exc = "none" /\ outcome.status = 200 /\ outcome.body.json

\* C17: send_message returns the response field of the reply when the reply
\* has one, and the text field when it has no response field but a text
\* field; SessionManager and the demo clients return the same value for the
\* same reply.
C17_ResponseThenText ==
    /\ (call.entry \in SendEntries /\ Replied(call.outcome)) =>
          /\ call.outcome.body.response # Absent
                => call.result = Return(call.outcome.body.response)
          /\ (call.outcome.body.response = Absent
                /\ call.outcome.body.text # Absent)
                => call.result = Return(call.outcome.body.text)
    /\ (call.entry \in SendEntries /\ Replied(call.outcome)) =>
          /\ SessionManager_send_message(call.outcome) = call.result
          /\ Return(SendReturn(call.outcome)) = call.result

C17_Witness ==
    /\ call.entry = "SessionClient.send_message"
    /\ Replied(call.outcome)
    /\ call.outcome.body.response = Absent
    /\ call.outcome.body.text = "t"
    /\ call.result = Return("t")

\* list_sessions got the list of the remote
Listed ==
    /\ call.entry = "SessionManager.list_sessions"
    /\ Replied(call.outcome)
    /\ call.outcome.body.has_sessions

\* the subsequence of ss whose agent_id is a, in the order of ss
RECURSIVE Matching(_, _)
Matching(ss, a) ==
    IF ss = <<>> THEN <<>>
    ELSE IF Head(ss).agent_id = a
    THEN <<Head(ss)>> \o Matching(Tail(ss), a)
    ELSE Matching(Tail(ss), a)

NotFound == call.outcome.exc = "none" /\ call.outcome.status = 404

C20_ConnectionFailureRaisesConnectionError ==
    (call.entry \in MgrEntries /\ call.outcome.exc = "ConnectionError") =>
        call.result = Raise("ConnectionError", "Cannot connect to ADK Web")

C20_Witness ==
    /\ call.entry = "SessionManager.create_session"
    /\ call.outcome.exc = "ConnectionError"
    /\ call.issued # <<>>
    /\ call.result.raised = "ConnectionError"

\* ------------------------------------------- the life of the client objects
\* "async with SessionClient() as client": __aenter__
Enter ==
    /\ Idle
    /\ client.session_client.session \in {None, "closed"}
    /\ client' = [client EXCEPT !.session_client = SessionClient_aenter(@)]
    /\ UNCHANGED <<call, session_history, batchVars>>

\* the end of the "async with" block: __aexit__
Exit ==
    /\ Idle
    /\ client.session_client.session = "open"
    /\ client' = [client EXCEPT !.session_client = SessionClient_aexit(@)]
    /\ UNCHANGED <<call, session_history, batchVars>>

\* the objects right after construction, at either spelling of the base URL;
\* the context of the aiohttp client is not entered yet
InitLifecycle ==
    /\ useAsync \in BOOLEAN
    /\ demo = 0
    /\ pcMain = "idle"
    /\ tasks = <<>>
    /\ st = <<>>
    /\ reply = <<>>
    /\ results = <<>>
    /\ recorded = [sid \in SessionIds |-> <<>>]
    /\ session_ids = <<>>
    /\ sessions = <<>>
    /\ completions = <<>>
    /\ returned = <<>>
    /\ call = NoCall
    /\ session_history = <<>>
    /\ \E base_url \in {ADK_BASE_URL, "http://localhost:8000/"} :
          client = [manager |-> SessionManager_init(base_url, 30),
                    session_client |-> SessionClient_init(useAsync, base_url)]

NextLifecycle ==
    \/ Enter
    \/ Exit
    \/ CallMgrCreateSession
    \/ CallMgrSendMessage
    \/ CallMgrListSessions
    \/ CallMgrGetSession
    \/ CallMgrDeleteSession
    \/ CallClientCreateSession
    \/ CallClientSendMessage

SpecLifecycle == InitLifecycle /\ [][NextLifecycle]_vars

\* the step is the return of a create/send/list/get/delete call
OperationReturns == call' # call

C28_AsyncClientReturnsNoneOnFailure ==
    [][(useAsync /\ call'.entry \in ClientEntries /\ call' # call) =>
        /\ call'.result.raised = "none"
        /\ (ExchangeFailed(call'.outcome) => call'.result.value = None)
        /\ (client.session_client.session # "open" =>
                /\ call'.issued = <<>>
                /\ call'.request = NoRequest
                /\ call'.result = Return(None))]_vars

\* create_session called after the context was left
C28_Witness ==
    /\ useAsync
    /\ call.entry = "SessionClient.create_session"
    /\ call.outcome.exc = "RuntimeError"
    /\ call.result = Return(None)
    /\ client.session_client.session = "closed"

\* ------------------------------------------------ claims on the scheduling
Pending == {i \in Ops : st[i] = "pending"}

\* the pending operation that was submitted first
NextPending == CHOOSE i \in Pending : \A j \in Pending : i <= j

\* C22 (as stated): with either client, a call in flight for one session
\* never holds back the next pending call for another session.
C22_DifferentSessionsNeverSerialised ==
    \A i, j \in Ops :
        (/\ pcMain = "gather_send"
         /\ i \in InFlight /\ j \in Pending /\ j = NextPending
         /\ tasks[i].sid # tasks[j].sid)
        => CanStart(j)

\* C22 (amended): with AsyncSessionClient a call in flight for one session
\* never holds back the next pending call for another session, so calls for
\* different sessions are in flight together; with the fallback
\* SyncSessionClient the calls of a batch are serialised, whatever their
\* sessions: no second call starts while one is in flight.
C22_SerialisedOnlyByFallback ==
    /\ useAsync => C22_DifferentSessionsNeverSerialised
    /\ ~useAsync =>
          /\ Cardinality(InFlight) <= 1
          /\ (InFlight # {} => \A j \in Ops : ~CanStart(j))

\* calls for the sessions of two users in flight at the same time
C22_Witness ==
    /\ useAsync /\ demo = 2 /\ pcMain = "gather_send"
    /\ \E i, j \in InFlight : tasks[i].sid # tasks[j].sid

C27_FallbackOneAtATime ==
    ~useAsync =>
        /\ Cardinality(InFlight) <= 1
        /\ \A i, j \in Ops : (i < j /\ st[j] # "pending") => st[i] = "done"

\* the second call of the load test is in flight after the first returned
C27_Witness ==
    /\ ~useAsync /\ demo = 3 /\ pcMain = "gather_send"
    /\ st[1] = "done" /\ st[2] = "wire" /\ Pending # {}

\* ------------------------------------------------- claims on the demos
\* C24: in demo_2_parallel_messaging every response shown under the name of
\* a user was produced by the session created for that user, whichever
\* session creations failed.
C24_ResponseShownUnderItsUser ==
    (demo = 2 /\ pcMain = "done") =>
        \A k \in DOMAIN returned :
            returned[k].response = ReplyText(SidOf(returned[k].user), 1)

\* C25: in demo_4_concurrent_conversations, when at least one session was
\* created, every user whose session was created has all of their messages
\* sent, whether or not the session of another user could be created.
C25_CreatedUsersConverse ==
    (demo = 4 /\ pcMain \in {"done", "key_error", "no_sessions"}
     /\ DOMAIN sessions # {}) =>
        \A u \in DOMAIN sessions : \A m \in Msgs :
            \E i \in Ops : /\ tasks[i] = SendTask(u, sessions[u], m)
                           /\ st[i] = "done"

\* --------------------------------- the sequential loops of multi_user_demo.py
\* demo 5 is demo_1_basic_multi_user, demo 6 is demo_3_conversation_memory
LoopDemos == {5, 6}

\* the users of the demo: the list "users" of demo_1, the one "Test User"
\* of demo_3
LoopUsers(d) == IF d = 6 THEN 1 ELSE NumUsers

\* (mutation of LoopNext) the loop ends at the first call that failed
LoopNextUnlessFailed(i) ==
    /\ st[i] = "pending"
    /\ \A j \in 1..(i - 1) : st[j] = "done" /\ results[j] # None

\* the body of a "for" loop calls the blocking client for item i when the
\* calls for the items before it have returned, whatever they returned
LoopNext(i) ==
    /\ st[i] = "pending"
    /\ \A j \in 1..(i - 1) : st[j] = "done"

\* "client.create_session(...)" / "client.send_message(session_id, message)"
\* in the loop body: requests.post is called
LoopStart(i) ==
    /\ Looping
    /\ LoopNext(i)
    /\ st' = [st EXCEPT ![i] = "called"]
    /\ UNCHANGED <<clientVars, useAsync, demo, pcMain, tasks, reply, results, recorded,
                   session_ids, sessions, returned, completions>>

\* "if session_id: sessions[user["name"]] = session_id"
LoopSessions(ids) == [u \in {v \in DOMAIN ids : Truthy(ids[v])} |-> ids[u]]

\* the send_message calls of the conversation loops in the order the loops
\* make them: "for user in users: session_id = sessions.get(user_name);
\* if not session_id: continue; for message in user["messages"]"
RECURSIVE SequentialTasks(_, _)
SequentialTasks(sess, u) ==
    IF u = 0 THEN <<>>
    ELSE SequentialTasks(sess, u - 1) \o
         (IF u \in DOMAIN sess
          THEN [m \in Msgs |-> SendTask(u, sess[u], m)]
          ELSE <<>>)

\* the creation loop (demo_1) or the one creation (demo_3) is over:
\* "if not sessions: return" / "if not session_id: return"
LoopCreateReturn ==
    /\ pcMain = "loop_create"
    /\ AllDone
    /\ session_ids' = results
    /\ sessions' = LoopSessions(results)
    /\ IF DOMAIN LoopSessions(results) = {}
       THEN /\ pcMain' = "no_sessions"
            /\ UNCHANGED <<tasks, st, reply, results, completions>>
       ELSE /\ pcMain' = "loop_send"
            /\ Submit(SequentialTasks(LoopSessions(results), LoopUsers(demo)))
    /\ UNCHANGED <<clientVars, useAsync, demo, recorded, returned>>

\* the conversation loops are over
LoopSendReturn ==
    /\ pcMain = "loop_send"
    /\ AllDone
    /\ pcMain' = "done"
    /\ UNCHANGED <<clientVars, useAsync, demo, tasks, st, reply, results, recorded,
                   session_ids, sessions, returned, completions>>

\* "client = SessionClient()": the client on requests
InitConversation ==
    /\ useAsync = FALSE
    /\ demo \in LoopDemos
    /\ pcMain = "loop_create"
    /\ tasks = [u \in 1..LoopUsers(demo) |-> CreateTask(u)]
    /\ st = [u \in 1..LoopUsers(demo) |-> "pending"]
    /\ reply = [u \in 1..LoopUsers(demo) |-> NoReply]
    /\ results = [u \in 1..LoopUsers(demo) |-> Unset]
    /\ completions = [u \in 1..LoopUsers(demo) |-> 0]
    /\ recorded = [s \in SessionIds |-> <<>>]
    /\ session_ids = <<>>
    /\ sessions = <<>>
    /\ returned = <<>>
    /\ call = NoCall
    /\ session_history = <<>>
    /\ client = [manager |-> SessionManager_init(ADK_BASE_URL, 30),
                 session_client |-> SessionClient_init(FALSE, ADK_BASE_URL)]

NextConversation ==
    \/ \E i \in Ops : LoopStart(i)
    \/ \E i \in Ops : ConnFail(i)
    \/ \E i \in Ops : Transmit(i)
    \/ \E i \in Ops : Complete(i)
    \/ LoopCreateReturn
    \/ LoopSendReturn

SpecConversation == InitConversation /\ [][NextConversation]_vars

\* C26: in the conversation loops of multi_user_demo.py at most one call is
\* under way, a call is made only after every call before it in list order
\* has returned, the remote receives the messages of a session in list
\* order, a call that failed does not keep the loop from making the next
\* call, and at the end every message of every user with a session has been
\* sent.
C26_SequentialConversation ==
    /\ Cardinality(InFlight) <= 1
    /\ \A i, j \in Ops : (i < j /\ st[j] # "pending") => st[i] = "done"
    /\ \A sid \in SessionIds : Increasing(Messages(recorded[sid]))
    /\ (Looping /\ Pending # {} /\ InFlight = {}) => LoopNext(NextPending)
    /\ pcMain = "done" =>
          /\ AllDone
          /\ tasks = SequentialTasks(sessions, LoopUsers(demo))

\* the second message of a conversation is on the wire after the first
\* message failed
C26_Witness ==
    /\ demo = 6 /\ pcMain = "loop_send"
    /\ st[1] = "done" /\ Failed(1) /\ results[1] = None
    /\ st[2] = "wire" /\ tasks[1].sid = tasks[2].sid
    /\ Len(recorded[tasks[2].sid]) >= 1

\* ------------------------------------------------ the history of the CLI
\* the user answered "y" to "Create another session?": one more round of
\* the same run, the name typed at the first attempt
CliNextRound ==
    /\ pcMain = "cli"
    /\ Len(session_history) < MaxRounds
    /\ \E round \in CliRound(session_history, {<<"al">>}) :
          /\ call' = round.call
          /\ session_history' = round.session_history
    /\ UNCHANGED <<client, batchVars>>

\* python create_session.py: "session_history: List[Dict] = []"
InitCli ==
    /\ useAsync = FALSE
    /\ demo = 0
    /\ pcMain = "cli"
    /\ tasks = <<>>
    /\ st = <<>>
    /\ reply = <<>>
    /\ results = <<>>
    /\ recorded = [sid \in SessionIds |-> <<>>]
    /\ session_ids = <<>>
    /\ sessions = <<>>
    /\ completions = <<>>
    /\ returned = <<>>
    /\ call = NoCall
    /\ session_history = <<>>
    /\ client = [manager |-> SessionManager_init(ADK_BASE_URL, 30),
                 session_client |-> SessionClient_init(FALSE, ADK_BASE_URL)]

NextCli == CliNextRound

SpecCli == InitCli /\ [][NextCli]_vars

\* the round that ends in the primed state created a session: the remote
\* answered 200 with a session id
CliCreated ==
    /\ call'.outcome.exc = "none"
    /\ call'.outcome.status = 200
    /\ call'.outcome.body.json
    /\ call'.outcome.body.session_id # Absent

\* C29: a round of the CLI whose POST is answered 200 with a session id
\* appends one record to session_history, holding that session id, the user
\* id and name typed and the state posted; every other round leaves
\* session_history as it was; the records before stay in place unaltered.
C29_HistoryIsSuccessfulCreations ==
    [][IF CliCreated
       THEN session_history' =
               Append(session_history,
                      [session_id |-> call'.outcome.body.session_id,
                       user_id |-> "u1",
                       user_name |-> call'.user_name,
                       state |-> call'.request.payload.state])
       ELSE session_history' = session_history]_vars

\* a round failed after a session was created in the same run: the record
\* of the creation is still the whole history
C29_Witness ==
    /\ pcMain = "cli"
    /\ call.outcome.exc = "ConnectionError"
    /\ call.issued # <<>>
    /\ Len(session_history) = 1
    /\ session_history[1].session_id = "s1"
    /\ session_history[1].state # call.request.payload.state

\* ------------------------------------------------------ the state posted
OptionalKeys == {"user_email", "user_preferences", "conversation_context"}

\* a value was passed and it is neither None nor the empty string
NonEmpty(v) == v \notin {Absent, None, ""}

\* the key is in the state posted exactly when a non-empty value was passed
\* for it, and with that value
KeyWhenNonEmpty(c, k) ==
    LET state == c.request.payload.state
    IN  /\ k \in DOMAIN state <=> NonEmpty(c.supplied[k])
        /\ k \in DOMAIN state => state[k] = c.supplied[k]

\* the key is in the state posted exactly when a value was passed for it,
\* and with that value
KeyWhenPassed(c, k) ==
    LET state == c.request.payload.state
    IN  /\ k \in DOMAIN state <=> c.supplied[k] # Absent
        /\ k \in DOMAIN state => state[k] = c.supplied[k]

\* C30 (as stated): on every entry point that creates sessions the state
\* posted contains user_name, and each optional key exactly when a non-empty
\* value was supplied for it, with that value.
C30_OptionalKeysWhenNonEmpty ==
    (call.entry \in CreateEntries /\ call.issued # <<>>) =>
        /\ "user_name" \in DOMAIN call.request.payload.state
        /\ call.request.payload.state["user_name"] = call.user_name
        /\ \A k \in OptionalKeys : KeyWhenNonEmpty(call, k)

\* C30 (amended): the state posted contains user_name with the name given;
\* user_email and user_preferences are in it exactly when a non-empty value
\* was given, with that value, on every entry point; so is
\* conversation_context for the CLI and the web form; the demo clients
\* never post conversation_context; SessionManager posts
\* conversation_context exactly when it was passed as an additional
\* keyword, with the value passed, empty or not.
C30_NamedKeysWhenNonEmpty ==
    (call.entry \in CreateEntries /\ call.issued # <<>>) =>
        /\ "user_name" \in DOMAIN call.request.payload.state
        /\ call.request.payload.state["user_name"] = call.user_name
        /\ DOMAIN call.request.payload.state \subseteq {"user_name"} \cup OptionalKeys
        /\ \A k \in {"user_email", "user_preferences"} : KeyWhenNonEmpty(call, k)
        /\ call.entry \in FormEntries => KeyWhenNonEmpty(call, "conversation_context")
        /\ call.entry = "SessionClient.create_session" =>
              "conversation_context" \notin DOMAIN call.request.payload.state
        /\ call.entry = "SessionManager.create_session" =>
              KeyWhenPassed(call, "conversation_context")

\* SessionManager posts an empty conversation_context passed as a keyword
\* and leaves out the empty user_email
C30_Witness ==
    /\ call.entry = "SessionManager.create_session"
    /\ call.issued # <<>>
    /\ call.supplied.user_email = ""
    /\ call.supplied.user_preferences = "x"
    /\ call.supplied.conversation_context = ""
    /\ DOMAIN call.request.payload.state =
          {"user_name", "user_preferences", "conversation_context"}
    /\ call.request.payload.state["conversation_context"] = ""
====
